---- MODULE Spec2Model ----
(***************************************************************************)
(* Model of screenscribe's temporal aligner (src/screenscribe/align.py),   *)
(* of AlignedContent.get_transcript_text (models.py) and of the choice of  *)
(* the transcription backend (audio_backends.py).                          *)
(*                                                                         *)
(* Times (segment start/end, frame timestamps, the time window) are finite *)
(* numbers; the aligner only compares, adds and subtracts them, so they    *)
(* are modelled as integers, one unit being half a second (the tests and   *)
(* the documented examples use 2.5, 5.5, 7.5).  A TranscriptSegment is the *)
(* record [id, start, end] and a FrameData the record [index, timestamp]:  *)
(* the other fields of models.py are never read by align.py.  id and index *)
(* are the position in the list, as the producers assign them              *)
(* (youtube_enhanced.py:143-149, video.py:96-102), so that two segments    *)
(* with equal timing remain distinct objects.                              *)
(***************************************************************************)
EXTENDS Integers, Sequences, FiniteSets, TLC

VARIABLES
    time_window,            \* TemporalAligner.time_window
    transcript_segments,    \* align's argument transcript_segments
    frames,                 \* align's argument frames
    aligned,                \* the list align returns
    searches,               \* calls of _find_nearest_segment made by align
    query_timestamp,        \* argument of a direct _find_nearest_segment call
    nearest_result,         \* what the direct _find_nearest_segment call returns
    pc,                     \* "constructed" before the call, "returned"/"found"/... after
    stats,                  \* the mapping get_alignment_stats returns
    calls,                  \* operations invoked on the aligner so far
    threads,                \* the locals of the align calls running concurrently
    transcript_text,        \* what get_transcript_text returns
    platform_env,           \* platform.system(), platform.machine(), mlx_whisper importable
    preferred,              \* get_best_backend's argument preferred
    model_name,             \* get_best_backend's argument model_name
    backend,                \* what get_best_backend returns (or the error it raises)
    filename,               \* sanitize_filename's argument, as runs of equal characters
    sanitized,              \* what sanitize_filename returned
    shutdown_requested,     \* audio._shutdown_requested
    original_handler,       \* audio._original_handler
    sigint_handler,         \* the handler installed for SIGINT
    process,                \* running, or how the process left its normal course
    sigints,                \* SIGINTs delivered so far
    segment_count,          \* segments transcribed so far
    synthesizer,            \* the ContentSynthesizer: arguments, router, primary_model
    router_fails,           \* whether litellm's Router(...) raises
    response,               \* where the last _make_llm_request went
    max_concurrent,         \* synthesize_all's argument max_concurrent
    semaphore,              \* permits left in synthesize_all's semaphore
    tasks,                  \* the per-frame tasks of synthesize_all
    results                 \* synthesize_all's list results

(* the aligner, the arguments and the result of one align call *)
alignVars == <<time_window, transcript_segments, frames, aligned, searches, query_timestamp, nearest_result, pc>>

(* what the align call neither reads nor writes *)
restVars == <<stats, calls, threads, transcript_text, platform_env, preferred, model_name, backend>>

(* utils.sanitize_filename: its argument and what it returned *)
utilVars == <<filename, sanitized>>

(* audio.py: the module globals, the handler installed for SIGINT and the  *)
(* process they belong to                                                  *)
signalVars == <<shutdown_requested, original_handler, sigint_handler, process, sigints, segment_count>>

(* what neither the aligner nor the backend selection touches *)
(* synthesis.py: the synthesizer object and one synthesize_all call *)
synthVars == <<synthesizer, router_fails, response, max_concurrent, semaphore, tasks, results>>

otherVars == <<utilVars, signalVars, synthVars>>

vars == <<alignVars, restVars, otherVars>>

----------------------------------------------------------------------------
(* Bounds of the model                                                     *)

MaxSegs == 2
MaxFrames == 2
MaxTime == 2
MaxWindow == 2

(* time_window: float = 2.0, the constructor's default, in half-seconds    *)
DefaultTimeWindow == 4

Times == 0..MaxTime
Windows == 0..MaxWindow

(* All sequences over S of length at most n                                *)
SeqsUpTo(S, n) == UNION {[1..k -> S] : k \in 0..n}

(* Segment timings are taken as given: end < start is not rejected         *)
Timings == [start : Times, end : Times]

MkSegments(ts) == [i \in 1..Len(ts) |-> [id |-> i - 1, start |-> ts[i].start, end |-> ts[i].end]]
MkFrames(ts) == [i \in 1..Len(ts) |-> [index |-> i - 1, timestamp |-> ts[i]]]

SegmentLists == {MkSegments(ts) : ts \in SeqsUpTo(Timings, MaxSegs)}
FrameLists == {MkFrames(ts) : ts \in SeqsUpTo(Times, MaxFrames)}

----------------------------------------------------------------------------
(* Python's None, as _find_nearest_segment returns it                      *)
None == [id |-> -1, start |-> 0, end |-> 0]

(* align.py:59-60                                                          *)
WindowStart(frame, w) == frame.timestamp - w
WindowEnd(frame, w) == frame.timestamp + w

(* Overlap tested strictly: a segment touching the window at one instant   *)
(* is left out                                                             *)
OverlapsStrict(seg, frame, w) == seg.end > WindowStart(frame, w) /\ seg.start < WindowEnd(frame, w)

(* Point containment instead of interval overlap: the window is ignored    *)
OverlapsPoint(seg, frame, w) == seg.start <= frame.timestamp /\ frame.timestamp <= seg.end

(* align.py:68, the overlap test                                           *)
Overlaps(seg, frame, w) == seg.end >= WindowStart(frame, w) /\ seg.start <= WindowEnd(frame, w)

(* The filter with each match put in front: the result is in reverse order *)
RECURSIVE RelevantSegmentsReversed(_, _, _)
RelevantSegmentsReversed(segments, frame, w) ==
    IF segments = <<>> THEN <<>>
    ELSE LET seg == Head(segments)
             rest == RelevantSegmentsReversed(Tail(segments), frame, w)
         IN IF seg.end >= frame.timestamp - w /\ seg.start <= frame.timestamp + w
            THEN rest \o <<seg>> ELSE rest

(* align.py:63-69: relevant_segments after the loop over the segments      *)
RECURSIVE RelevantSegments(_, _, _)
RelevantSegments(segments, frame, w) ==
    IF segments = <<>> THEN <<>>
    ELSE LET seg == Head(segments)
             rest == RelevantSegments(Tail(segments), frame, w)
         IN IF Overlaps(seg, frame, w) THEN <<seg>> \o rest ELSE rest

(* Distance to a past segment measured from its start instead of its end   *)
DistanceFromStart(seg, timestamp) ==
    IF timestamp < seg.start THEN seg.start - timestamp
    ELSE IF timestamp > seg.end THEN timestamp - seg.start
    ELSE 0

(* Distance measured to the end of the segment, wherever the frame lies    *)
DistanceToEnd(seg, timestamp) ==
    IF timestamp < seg.end THEN seg.end - timestamp ELSE timestamp - seg.end

(* align.py:105-111                                                        *)
Distance(seg, timestamp) ==
    IF timestamp < seg.start THEN seg.start - timestamp
    ELSE IF timestamp > seg.end THEN timestamp - seg.end
    ELSE 0

(* min_distance started at 0 instead of infinity                           *)
ScanInitZero == [inf |-> FALSE, min_distance |-> 0, nearest_segment |-> [id |-> -1, start |-> 0, end |-> 0]]

(* align.py:100-101: min_distance = float('inf'), nearest_segment = None   *)
ScanInit == [inf |-> TRUE, min_distance |-> 0, nearest_segment |-> None]

(* distance <= min_distance: the last of several equally near segments wins *)
CloserOrEqual(distance, scan) == scan.inf \/ distance <= scan.min_distance

(* align.py:113: distance < min_distance, min_distance possibly infinite   *)
Closer(distance, scan) == scan.inf \/ distance < scan.min_distance

(* align.py:103-115: the scan, from the state reached so far               *)
RECURSIVE Scan(_, _, _)
Scan(segments, timestamp, scan) ==
    IF segments = <<>> THEN scan
    ELSE LET seg == Head(segments)
             distance == Distance(seg, timestamp)
         IN Scan(Tail(segments), timestamp,
                 IF Closer(distance, scan)
                 THEN [inf |-> FALSE, min_distance |-> distance, nearest_segment |-> seg]
                 ELSE scan)

(* a scan that starts at the second segment *)
FindNearestSkippingFirst(segments, timestamp) ==
    IF segments = <<>> THEN None
    ELSE Scan(Tail(segments), timestamp, ScanInit).nearest_segment

(* align.py:94-117                                                         *)
FindNearestSegment(segments, timestamp) ==
    IF segments = <<>> THEN None
    ELSE Scan(segments, timestamp, ScanInit).nearest_segment

(* align.py:72-76: the segments recorded for one frame                     *)
FrameSegments(segments, frame, w) ==
    LET relevant_segments == RelevantSegments(segments, frame, w)
    IN IF relevant_segments = <<>>
       THEN LET nearest == FindNearestSegment(segments, frame.timestamp)
            IN IF nearest # None THEN <<nearest>> ELSE <<>>
       ELSE relevant_segments

(* align.py:72-74: whether the frame takes the nearest-neighbour path      *)
UsesFallback(segments, frame, w) == RelevantSegments(segments, frame, w) = <<>>

(* models.py:64-68, as align.py:83-87 builds it                            *)
AlignedContent(frame, segs, w) == [frame |-> frame, transcript_segments |-> segs, time_window |-> w]

(* A frame with no segment in its window is skipped instead of falling     *)
(* back to the nearest segment                                             *)
HasSegments(ac) == ac.transcript_segments # <<>>
AlignLoopSkipping(segments, fs, w) ==
    SelectSeq([i \in 1..Len(fs) |-> AlignedContent(fs[i], RelevantSegments(segments, fs[i], w), w)],
              HasSegments)

(* Each record inserted at the front of the result                         *)
AlignLoopReversed(segments, fs, w) ==
    [i \in 1..Len(fs) |->
        AlignedContent(fs[Len(fs) + 1 - i], FrameSegments(segments, fs[Len(fs) + 1 - i], w), w)]

(* relevant_segments created once before the loop instead of once per      *)
(* frame: each frame inherits what the frames before it collected          *)
RECURSIVE CollectedUpTo(_, _, _, _)
CollectedUpTo(segments, fs, i, w) ==
    IF i = 0 THEN <<>>
    ELSE LET before == CollectedUpTo(segments, fs, i - 1, w)
             found == before \o RelevantSegments(segments, fs[i], w)
         IN IF found = <<>> THEN <<FindNearestSegment(segments, fs[i].timestamp)>> ELSE found
AlignLoopAccumulating(segments, fs, w) ==
    [i \in 1..Len(fs) |-> AlignedContent(fs[i], CollectedUpTo(segments, fs, i, w), w)]

(* align.py:57-89: the loop over the frames                                *)
AlignLoop(segments, fs, w) ==
    [i \in 1..Len(fs) |-> AlignedContent(fs[i], FrameSegments(segments, fs[i], w), w)]

(* The first frame left out                                                *)
CreateEmptySkipsFirst(fs, w) ==
    [i \in 1..(Len(fs) - 1) |-> AlignedContent(fs[i + 1], <<>>, w)]

(* align.py:119-132                                                        *)
CreateEmptyAlignedContent(fs, w) ==
    [i \in 1..Len(fs) |-> AlignedContent(fs[i], <<>>, w)]

(* number of frames of fs that take the nearest-neighbour path             *)
FallbackCount(segments, fs, w) == Cardinality({i \in 1..Len(fs) : UsesFallback(segments, fs[i], w)})

----------------------------------------------------------------------------
(* Python's empty dict, as get_alignment_stats returns it                  *)
EmptyMapping == <<>>

(* MaxCalls bounds the operations invoked on one aligner, MaxRecords the   *)
(* length of a hand-built list of aligned records                          *)
MaxCalls == 3
MaxRecords == 4

RECURSIVE GCD(_, _)
GCD(a, b) == IF b = 0 THEN a ELSE GCD(b, a % b)

(* The int 0 of "... else 0", equal to the float 0.0                       *)
Zero == [num |-> 0, den |-> 1]

(* n // d instead of n / d                                                 *)
QuotientFloor(n, d) == [num |-> n \div d, den |-> 1]

(* align.py:145,148: n / d for ints n >= 0, d > 0.  The float is modelled  *)
(* as the exact fraction in lowest terms: equal quotients are equal values *)
Quotient(n, d) == [num |-> n \div GCD(n, d), den |-> d \div GCD(n, d)]

(* Every segment counted, not every frame that has one                     *)
RECURSIVE FramesWithTranscriptPerSegment(_)
FramesWithTranscriptPerSegment(aligned_content) ==
    IF aligned_content = <<>> THEN 0
    ELSE Len(Head(aligned_content).transcript_segments)
            + FramesWithTranscriptPerSegment(Tail(aligned_content))

(* align.py:140: sum(1 for ac in aligned_content if ac.transcript_segments) *)
RECURSIVE FramesWithTranscript(_)
FramesWithTranscript(aligned_content) ==
    IF aligned_content = <<>> THEN 0
    ELSE (IF Head(aligned_content).transcript_segments # <<>> THEN 1 ELSE 0)
            + FramesWithTranscript(Tail(aligned_content))

(* One counted for each frame with segments, whatever their number         *)
RECURSIVE TotalSegmentsPerFrame(_)
TotalSegmentsPerFrame(aligned_content) ==
    IF aligned_content = <<>> THEN 0
    ELSE (IF Head(aligned_content).transcript_segments # <<>> THEN 1 ELSE 0)
            + TotalSegmentsPerFrame(Tail(aligned_content))

(* align.py:144: sum(len(ac.transcript_segments) for ac in aligned_content) *)
RECURSIVE TotalSegments(_)
TotalSegments(aligned_content) ==
    IF aligned_content = <<>> THEN 0
    ELSE Len(Head(aligned_content).transcript_segments) + TotalSegments(Tail(aligned_content))

(* align.py:139-157: the mapping built when there are records              *)
StatsMapping(aligned_content, w) ==
    LET total_frames == Len(aligned_content)
        frames_with_transcript == FramesWithTranscript(aligned_content)
        frames_without_transcript == total_frames - frames_with_transcript
        total_segments == TotalSegments(aligned_content)
        avg_segments_per_frame ==
            IF total_frames > 0 THEN Quotient(total_segments, total_frames) ELSE Zero
        coverage_ratio ==
            IF total_frames > 0 THEN Quotient(frames_with_transcript, total_frames) ELSE Zero
    IN [total_frames |-> total_frames,
        frames_with_transcript |-> frames_with_transcript,
        frames_without_transcript |-> frames_without_transcript,
        coverage_ratio |-> coverage_ratio,
        avg_segments_per_frame |-> avg_segments_per_frame,
        time_window |-> w]

(* No early return: a mapping of zeros for no records                      *)
GetAlignmentStatsZeros(aligned_content, w) == StatsMapping(aligned_content, w)

(* align.py:134-157                                                        *)
GetAlignmentStats(aligned_content, w) ==
    IF aligned_content = <<>> THEN EmptyMapping
    ELSE StatsMapping(aligned_content, w)

(* Nothing called yet outside align: no statistics, no concurrent calls,   *)
(* no text, no backend chosen                                              *)
StatsIdle == stats = EmptyMapping /\ calls = 0

ThreadsIdle == threads = <<>>

TextIdle == transcript_text = <<>>

BackendIdle ==
    /\ platform_env = [system |-> "Linux", machine |-> "x86_64", mlx_whisper |-> FALSE]
    /\ preferred = "None"
    /\ model_name = "base"
    /\ backend = [kind |-> "none", model_name |-> ""]

RestIdle == StatsIdle /\ ThreadsIdle /\ TextIdle /\ BackendIdle

(* sanitize_filename not called; audio.py imported and no signal yet       *)
UtilIdle == filename = <<>> /\ sanitized = <<>>

SignalIdle ==
    /\ shutdown_requested = FALSE
    /\ original_handler = "default_int_handler"
    /\ sigint_handler = "_signal_handler"
    /\ process = "running"
    /\ sigints = 0
    /\ segment_count = 0

(* no synthesizer built, no synthesis under way *)
SetupIdle ==
    /\ synthesizer = [provider |-> "openai", model |-> "None", no_fallback |-> FALSE,
                      router |-> <<>>, primary_model |-> [provider |-> "", model |-> ""]]
    /\ router_fails = FALSE
    /\ response = "none"

GatherIdle ==
    /\ max_concurrent = 0
    /\ semaphore = 0
    /\ tasks = <<>>
    /\ results = <<>>

SynthIdle == SetupIdle /\ GatherIdle

OtherIdle == UtilIdle /\ SignalIdle /\ SynthIdle

(* State after TemporalAligner(time_window) is constructed and the inputs  *)
(* of the call are fixed                                                   *)
Init ==
    /\ time_window \in Windows
    /\ transcript_segments \in SegmentLists
    /\ frames \in FrameLists
    /\ aligned = <<>>
    /\ searches = 0
    /\ query_timestamp = 0
    /\ nearest_result = None
    /\ pc = "constructed"
    /\ RestIdle
    /\ OtherIdle

(* align.py:39-41: no transcript segments                                  *)
AlignNoSegments ==
    /\ pc = "constructed"
    /\ transcript_segments = <<>>
    /\ aligned' = CreateEmptyAlignedContent(frames, time_window)
    /\ pc' = "returned"
    /\ UNCHANGED <<time_window, transcript_segments, frames, searches, query_timestamp, nearest_result>>
    /\ UNCHANGED restVars
    /\ UNCHANGED otherVars

(* The no-frames branch answering with one empty record per segment       *)
AlignNoFramesPerSegment ==
    /\ pc = "constructed"
    /\ transcript_segments # <<>>
    /\ frames = <<>>
    /\ aligned' = CreateEmptyAlignedContent(transcript_segments, time_window)
    /\ pc' = "returned"
    /\ UNCHANGED <<time_window, transcript_segments, frames, searches, query_timestamp, nearest_result>>
    /\ UNCHANGED restVars
    /\ UNCHANGED otherVars

(* align.py:43-45: segments but no frames                                  *)
AlignNoFrames ==
    /\ pc = "constructed"
    /\ transcript_segments # <<>>
    /\ frames = <<>>
    /\ aligned' = <<>>
    /\ pc' = "returned"
    /\ UNCHANGED <<time_window, transcript_segments, frames, searches, query_timestamp, nearest_result>>
    /\ UNCHANGED restVars
    /\ UNCHANGED otherVars

(* The main path with a precondition check: a segment with end < start     *)
(* makes the call fail instead of returning                                *)
AlignFramesValidating ==
    /\ pc = "constructed"
    /\ transcript_segments # <<>>
    /\ frames # <<>>
    /\ \A j \in 1..Len(transcript_segments) :
          transcript_segments[j].start <= transcript_segments[j].end
    /\ aligned' = [i \in 1..Len(frames) |->
                      AlignedContent(frames[i], FrameSegments(transcript_segments, frames[i], time_window), time_window)]
    /\ searches' = FallbackCount(transcript_segments, frames, time_window)
    /\ pc' = "returned"
    /\ UNCHANGED <<time_window, transcript_segments, frames, query_timestamp, nearest_result>>
    /\ UNCHANGED restVars
    /\ UNCHANGED otherVars

(* align.py:47-92: the main path.  The sorted time_index of lines 49-55 is *)
(* built and never read: it changes nothing the call returns or keeps.     *)
AlignFrames ==
    /\ pc = "constructed"
    /\ transcript_segments # <<>>
    /\ frames # <<>>
    /\ aligned' = AlignLoop(transcript_segments, frames, time_window)
    /\ searches' = FallbackCount(transcript_segments, frames, time_window)
    /\ pc' = "returned"
    /\ UNCHANGED <<time_window, transcript_segments, frames, query_timestamp, nearest_result>>
    /\ UNCHANGED restVars
    /\ UNCHANGED otherVars

Next == AlignNoSegments \/ AlignNoFrames \/ AlignFrames

Spec == Init /\ [][Next]_vars

(* align on every segment list, ill-timed segments included, against       *)
(* frames at 0.0 and 0.5 seconds                                           *)
EarlyFrameLists == {MkFrames(ts) : ts \in SeqsUpTo({0, 1}, MaxFrames)}

InitMalformed ==
    /\ time_window \in Windows
    /\ transcript_segments \in SegmentLists
    /\ frames \in EarlyFrameLists
    /\ aligned = <<>>
    /\ searches = 0
    /\ query_timestamp = 0
    /\ nearest_result = None
    /\ pc = "constructed"
    /\ RestIdle
    /\ OtherIdle

SpecMalformed == InitMalformed /\ [][Next]_vars

----------------------------------------------------------------------------
(* _find_nearest_segment called on its own, as test_find_nearest_segment   *)
(* does: any segment list, any timestamp (also one before time 0)          *)

QueryTimes == (0 - 1)..(MaxTime + 1)

InitNearest ==
    /\ time_window = DefaultTimeWindow
    /\ transcript_segments \in SegmentLists
    /\ frames = <<>>
    /\ aligned = <<>>
    /\ searches = 0
    /\ query_timestamp \in QueryTimes
    /\ nearest_result = None
    /\ pc = "constructed"
    /\ RestIdle
    /\ OtherIdle

(* align.py:94-117, one call                                               *)
FindNearest ==
    /\ pc = "constructed"
    /\ nearest_result' = FindNearestSegment(transcript_segments, query_timestamp)
    /\ pc' = "found"
    /\ UNCHANGED <<time_window, transcript_segments, frames, aligned, searches, query_timestamp>>
    /\ UNCHANGED restVars
    /\ UNCHANGED otherVars

SpecNearest == InitNearest /\ [][FindNearest]_vars

----------------------------------------------------------------------------
(* The documented overlap example, in half-seconds: a segment S spanning   *)
(* [2.0, 4.0] somewhere in the segment list, a frame at 5.5 somewhere in   *)
(* the frame list, and a window of 2.0 (wide) or of 1.0 (narrow)           *)

ExampleSegment == [start |-> 4, end |-> 8]
ExampleFrame == [timestamp |-> 11]
WideWindow == DefaultTimeWindow
NarrowWindow == DefaultTimeWindow \div 2
ExampleWindows == {WideWindow, NarrowWindow}

(* timings and timestamps of the other segments and frames: around the     *)
(* edges of both windows                                                   *)
ExampleTimes == {0, 7, 9, 13, 16}
ExampleTimings == [start : ExampleTimes, end : ExampleTimes] \cup {ExampleSegment}

InitExample ==
    /\ time_window \in ExampleWindows
    /\ transcript_segments \in
          {MkSegments(ts) : ts \in {s \in SeqsUpTo(ExampleTimings, MaxSegs) :
                                       \E i \in 1..Len(s) : s[i] = ExampleSegment}}
    /\ frames \in
          {MkFrames(ts) : ts \in {s \in SeqsUpTo(ExampleTimes \cup {ExampleFrame.timestamp}, MaxFrames) :
                                     \E i \in 1..Len(s) : s[i] = ExampleFrame.timestamp}}
    /\ aligned = <<>>
    /\ searches = 0
    /\ query_timestamp = 0
    /\ nearest_result = None
    /\ pc = "constructed"
    /\ RestIdle
    /\ OtherIdle

SpecExample == InitExample /\ [][AlignFrames]_vars

----------------------------------------------------------------------------
(* get_alignment_stats on a hand-built list of aligned records: up to      *)
(* MaxRecords records, each with zero to MaxSegs segments                  *)

BuiltSegmentLists == {MkSegments(ts) : ts \in SeqsUpTo({[start |-> 0, end |-> 1]}, MaxSegs)}

BuiltRecords(w) ==
    UNION {{[i \in 1..n |-> AlignedContent([index |-> i - 1, timestamp |-> i - 1], choice[i], w)] :
               choice \in [1..n -> BuiltSegmentLists]} : n \in 0..MaxRecords}

InitStats ==
    /\ time_window = DefaultTimeWindow
    /\ transcript_segments = <<>>
    /\ frames = <<>>
    /\ aligned \in BuiltRecords(DefaultTimeWindow)
    /\ searches = 0
    /\ query_timestamp = 0
    /\ nearest_result = None
    /\ pc = "built"
    /\ RestIdle
    /\ OtherIdle

(* align.py:134-157, one call on the list at hand                          *)
StatsCall ==
    /\ pc # "constructed"
    /\ calls < MaxCalls
    /\ stats' = GetAlignmentStats(aligned, time_window)
    /\ calls' = calls + 1
    /\ pc' = "stats"
    /\ UNCHANGED <<time_window, transcript_segments, frames, aligned, searches, query_timestamp, nearest_result>>
    /\ UNCHANGED <<threads, transcript_text, platform_env, preferred, model_name, backend>>
    /\ UNCHANGED otherVars

SpecStats == InitStats /\ [][StatsCall]_vars

----------------------------------------------------------------------------
(* One aligner used for several calls in a row: align on the same inputs,  *)
(* get_alignment_stats on what align returned, in any order, up to         *)
(* MaxCalls calls.  The segments are as a transcription yields them: in    *)
(* time order, each with start <= end.                                     *)

CallSegmentLists ==
    {segs \in SegmentLists :
        /\ \A j \in 1..Len(segs) : segs[j].start <= segs[j].end
        /\ \A j \in 1..(Len(segs) - 1) : segs[j].start <= segs[j + 1].start}

InitCalls ==
    /\ time_window \in Windows
    /\ transcript_segments \in CallSegmentLists
    /\ frames \in FrameLists
    /\ aligned = <<>>
    /\ searches = 0
    /\ query_timestamp = 0
    /\ nearest_result = None
    /\ pc = "constructed"
    /\ RestIdle
    /\ OtherIdle

(* align.py:24-92: what one call returns                                   *)
AlignResult(segments, fs, w) ==
    IF segments = <<>> THEN CreateEmptyAlignedContent(fs, w)
    ELSE IF fs = <<>> THEN <<>>
    ELSE AlignLoop(segments, fs, w)

(* align.py:39-45,72-74: the nearest-neighbour searches of one call        *)
SearchesOf(segments, fs, w) ==
    IF segments = <<>> \/ fs = <<>> THEN 0 ELSE FallbackCount(segments, fs, w)

(* An aligner that adapts: a call that had to fall back widens the window  *)
(* kept in self.time_window                                                *)
AlignCallAdaptive ==
    /\ calls < MaxCalls
    /\ aligned' = AlignResult(transcript_segments, frames, time_window)
    /\ searches' = SearchesOf(transcript_segments, frames, time_window)
    /\ time_window' = IF searches' > 0 THEN time_window + 1 ELSE time_window
    /\ calls' = calls + 1
    /\ pc' = "returned"
    /\ UNCHANGED <<transcript_segments, frames, query_timestamp, nearest_result>>
    /\ UNCHANGED <<stats, threads, transcript_text, platform_env, preferred, model_name, backend>>
    /\ UNCHANGED otherVars

(* align.py:24-92, one call, the first or a later one                      *)
AlignCall ==
    /\ calls < MaxCalls
    /\ aligned' = AlignResult(transcript_segments, frames, time_window)
    /\ searches' = SearchesOf(transcript_segments, frames, time_window)
    /\ calls' = calls + 1
    /\ pc' = "returned"
    /\ UNCHANGED <<time_window, transcript_segments, frames, query_timestamp, nearest_result>>
    /\ UNCHANGED <<stats, threads, transcript_text, platform_env, preferred, model_name, backend>>
    /\ UNCHANGED otherVars

NextCalls == AlignCall \/ StatsCall

SpecCalls == InitCalls /\ [][NextCalls]_vars

----------------------------------------------------------------------------
(* align followed by get_alignment_stats on what it returned, for every    *)
(* segment list against frames at 0.0 and 0.5 seconds                      *)

NextComposed == Next \/ StatsCall

SpecComposed == InitMalformed /\ [][NextComposed]_vars

----------------------------------------------------------------------------
(* Two align calls on one aligner at the same time, each on its own        *)
(* arguments.  A call's locals (its arguments, the frame it is at,         *)
(* relevant_segments, aligned) are its own; self.time_window is the only   *)
(* thing both read.  A call advances in steps: the entry checks, then per  *)
(* frame the filter and the choice with the append.                        *)

Callers == {1, 2}

ConcSegmentLists ==
    {<<>>,
     MkSegments(<<[start |-> 0, end |-> 0]>>),
     MkSegments(<<[start |-> 0, end |-> 0], [start |-> MaxTime, end |-> MaxTime]>>)}

ConcFrameLists == {MkFrames(ts) : ts \in SeqsUpTo({0, MaxTime}, MaxFrames)}

(* a call that has been made and has not run yet *)
Called(segments, fs) ==
    [segments |-> segments, frames |-> fs, pc |-> "called", i |-> 1,
     relevant_segments |-> <<>>, aligned |-> <<>>]

InitConcurrent ==
    /\ time_window \in Windows
    /\ transcript_segments = <<>>
    /\ frames = <<>>
    /\ aligned = <<>>
    /\ searches = 0
    /\ query_timestamp = 0
    /\ nearest_result = None
    /\ pc = "constructed"
    /\ StatsIdle /\ TextIdle /\ BackendIdle
    /\ OtherIdle
    /\ threads \in [Callers -> {Called(segs, fs) : segs \in ConcSegmentLists, fs \in ConcFrameLists}]

(* relevant_segments kept where both calls see it: a call may pick up what *)
(* the other call has just collected                                       *)
RelevantOfShared(t) ==
    IF threads[3 - t].pc = "choose"
    THEN threads[3 - t].relevant_segments
    ELSE threads[t].relevant_segments

(* align.py:63,72: relevant_segments is a local of the call                *)
RelevantOf(t) == threads[t].relevant_segments

(* align.py:39-47: the entry checks                                        *)
CallEnter(t) ==
    /\ threads[t].pc = "called"
    /\ threads' = [threads EXCEPT ![t] =
          IF threads[t].segments = <<>>
          THEN [@ EXCEPT !.aligned = CreateEmptyAlignedContent(threads[t].frames, time_window),
                         !.pc = "done"]
          ELSE IF threads[t].frames = <<>>
          THEN [@ EXCEPT !.aligned = <<>>, !.pc = "done"]
          ELSE [@ EXCEPT !.aligned = <<>>, !.i = 1, !.pc = "window"]]
    /\ UNCHANGED <<alignVars, stats, calls, transcript_text, platform_env, preferred, model_name, backend>>
    /\ UNCHANGED otherVars

(* align.py:57-69: the window and the filter for the frame at hand         *)
CallFilter(t) ==
    /\ threads[t].pc = "window"
    /\ threads' = [threads EXCEPT ![t] =
          [@ EXCEPT !.relevant_segments =
                        RelevantSegments(threads[t].segments, threads[t].frames[threads[t].i], time_window),
                    !.pc = "choose"]]
    /\ UNCHANGED <<alignVars, stats, calls, transcript_text, platform_env, preferred, model_name, backend>>
    /\ UNCHANGED otherVars

(* align.py:71-92: the fallback, the record, the next frame or the return  *)
CallAppend(t) ==
    /\ threads[t].pc = "choose"
    /\ LET frame == threads[t].frames[threads[t].i]
           relevant_segments == RelevantOf(t)
           nearest == FindNearestSegment(threads[t].segments, frame.timestamp)
           chosen == IF relevant_segments = <<>>
                     THEN (IF nearest # None THEN <<nearest>> ELSE <<>>)
                     ELSE relevant_segments
       IN threads' = [threads EXCEPT ![t] =
             [@ EXCEPT !.aligned = Append(@, AlignedContent(frame, chosen, time_window)),
                       !.i = @ + 1,
                       !.pc = IF threads[t].i = Len(threads[t].frames) THEN "done" ELSE "window"]]
    /\ UNCHANGED <<alignVars, stats, calls, transcript_text, platform_env, preferred, model_name, backend>>
    /\ UNCHANGED otherVars

NextConcurrent == \E t \in Callers : CallEnter(t) \/ CallFilter(t) \/ CallAppend(t)

SpecConcurrent == InitConcurrent /\ [][NextConcurrent]_vars

----------------------------------------------------------------------------
(* AlignedContent.get_transcript_text.  A text is a sequence of            *)
(* characters; a segment here carries its text.                            *)

MaxTextLen == 3
MaxTexts == 2

Whitespace == {" ", "\n"}
Alphabet == {"a"} \cup Whitespace

Texts == SeqsUpTo(Alphabet, MaxTextLen)

RECURSIVE LStrip(_)
LStrip(text) ==
    IF text # <<>> /\ Head(text) \in Whitespace THEN LStrip(Tail(text)) ELSE text

RECURSIVE RStrip(_)
RStrip(text) ==
    IF text # <<>> /\ text[Len(text)] \in Whitespace
    THEN RStrip(SubSeq(text, 1, Len(text) - 1))
    ELSE text

(* only the leading whitespace goes *)
StripLeading(text) == LStrip(text)

(* str.strip() *)
Strip(text) == RStrip(LStrip(text))

(* sep.join(parts) *)
RECURSIVE Join(_, _)
Join(sep, parts) ==
    IF parts = <<>> THEN <<>>
    ELSE IF Len(parts) = 1 THEN parts[1]
    ELSE parts[1] \o sep \o Join(sep, Tail(parts))

(* models.py:70-72 *)
GetTranscriptText(content) ==
    Join(<<" ">>, [i \in 1..Len(content.transcript_segments) |->
                       Strip(content.transcript_segments[i].text)])

(* segments carrying the given texts, one second each, back to back *)
MkTextSegments(texts) ==
    [i \in 1..Len(texts) |->
        [id |-> i - 1, start |-> 2 * (i - 1), end |-> 2 * i, text |-> texts[i]]]

InitText ==
    /\ time_window = DefaultTimeWindow
    /\ transcript_segments = <<>>
    /\ frames = <<>>
    /\ \E n \in 0..MaxTexts : \E texts \in [1..n -> Texts] :
          aligned = <<[frame |-> [index |-> 0, timestamp |-> 0],
                       transcript_segments |-> MkTextSegments(texts),
                       time_window |-> DefaultTimeWindow]>>
    /\ searches = 0
    /\ query_timestamp = 0
    /\ nearest_result = None
    /\ pc = "constructed"
    /\ RestIdle
    /\ OtherIdle

TextCall ==
    /\ pc = "constructed"
    /\ transcript_text' = GetTranscriptText(aligned[1])
    /\ pc' = "text"
    /\ UNCHANGED <<time_window, transcript_segments, frames, aligned, searches, query_timestamp, nearest_result>>
    /\ UNCHANGED <<stats, calls, threads, platform_env, preferred, model_name, backend>>
    /\ UNCHANGED otherVars

SpecText == InitText /\ [][TextCall]_vars

----------------------------------------------------------------------------
(* get_best_backend.  The platform is what platform.system() and           *)
(* platform.machine() answer and whether import mlx_whisper succeeds; a    *)
(* backend is its kind and the model name it was built with.               *)

Systems == {"Darwin", "Linux", "Windows"}
Machines == {"arm64", "x86_64"}
ModelNames == {"tiny", "base", "small"}

(* preferred: None, the empty string, the known names, "auto" and a name   *)
(* no backend has                                                          *)
PreferredValues == {"None", "", "mlx", "faster-whisper", "auto", "nonexistent-backend"}

(* audio_backends.py:257-260: the keys of the backends dict *)
Backends == {"mlx", "faster-whisper"}

(* the universal fallback tried before the platform-specific backend *)
PriorityFallbackFirst == <<"faster-whisper", "mlx">>

(* audio_backends.py:273 *)
Priority == <<"mlx", "faster-whisper">>

(* audio_backends.py:38-50 *)
MLXIsAvailable(env) ==
    IF env.system # "Darwin" THEN FALSE
    ELSE IF env.machine # "arm64" THEN FALSE
    ELSE env.mlx_whisper

(* faster-whisper taken to be missing on Apple machines *)
FasterWhisperOffApple(env) == env.system # "Darwin"

(* audio_backends.py:120-122 *)
FasterWhisperIsAvailable(env) == TRUE

IsAvailable(name, env) ==
    IF name = "mlx" THEN MLXIsAvailable(env) ELSE FasterWhisperIsAvailable(env)

(* truth value of an Optional[str] *)
Truthy(value) == value \notin {"None", ""}

(* audio_backends.py:273-284: the first available name in priority order,  *)
(* RuntimeError when the list is exhausted                                 *)
RECURSIVE AutoDetect(_, _)
AutoDetect(i, env) ==
    IF i > Len(Priority) THEN "RuntimeError"
    ELSE IF Priority[i] \in Backends /\ IsAvailable(Priority[i], env) THEN Priority[i]
    ELSE AutoDetect(i + 1, env)

(* audio_backends.py:248-284 *)
GetBestBackend(model, pref, env) ==
    IF Truthy(pref) /\ pref \in Backends /\ IsAvailable(pref, env)
    THEN [kind |-> pref, model_name |-> model]
    ELSE LET name == AutoDetect(1, env)
         IN [kind |-> name, model_name |-> IF name = "RuntimeError" THEN "" ELSE model]

InitBackend ==
    /\ time_window = DefaultTimeWindow
    /\ transcript_segments = <<>>
    /\ frames = <<>>
    /\ aligned = <<>>
    /\ searches = 0
    /\ query_timestamp = 0
    /\ nearest_result = None
    /\ pc = "constructed"
    /\ StatsIdle /\ ThreadsIdle /\ TextIdle
    /\ OtherIdle
    /\ platform_env \in [system : Systems, machine : Machines, mlx_whisper : BOOLEAN]
    /\ preferred \in PreferredValues
    /\ model_name \in ModelNames
    /\ backend = [kind |-> "none", model_name |-> ""]

SelectBackend ==
    /\ pc = "constructed"
    /\ backend' = GetBestBackend(model_name, preferred, platform_env)
    /\ pc' = "selected"
    /\ UNCHANGED <<time_window, transcript_segments, frames, aligned, searches, query_timestamp, nearest_result>>
    /\ UNCHANGED <<stats, calls, threads, transcript_text, platform_env, preferred, model_name>>
    /\ UNCHANGED otherVars

SpecBackend == InitBackend /\ [][SelectBackend]_vars

----------------------------------------------------------------------------
(* utils.sanitize_filename.  A string is kept as its runs of equal         *)
(* characters, [char, count] with count >= 1, so that names around the     *)
(* length limit stay small: "aab" is <<[a, 2], [b, 1]>>.                   *)

MaxRuns == 3

(* utils.py:51 *)
FilenameLimit == 100

(* utils.py:47: the character class of the substitution *)
InvalidChars == {"<", ">", ":", "\"", "/", "\\", "|", "?", "*"}

(* utils.py:49: the characters strip takes off the ends *)
StripChars == {".", " "}

NameChars == {"a", "_", ".", " ", "/"}

RunLengths == {1, FilenameLimit - 1, FilenameLimit}

Runs == [char : NameChars, count : RunLengths]

Filenames == SeqsUpTo(Runs, MaxRuns)

(* len(name) *)
RECURSIVE NameLen(_)
NameLen(name) == IF name = <<>> THEN 0 ELSE Head(name).count + NameLen(Tail(name))

(* utils.py:47: re.sub(r'[<>:"/\\|?*]', '_', filename) *)
Substitute(name) ==
    [k \in 1..Len(name) |->
        [char |-> IF name[k].char \in InvalidChars THEN "_" ELSE name[k].char,
         count |-> name[k].count]]

RECURSIVE StripLeft(_)
StripLeft(name) ==
    IF name # <<>> /\ Head(name).char \in StripChars THEN StripLeft(Tail(name)) ELSE name

RECURSIVE StripRight(_)
StripRight(name) ==
    IF name # <<>> /\ name[Len(name)].char \in StripChars
    THEN StripRight(SubSeq(name, 1, Len(name) - 1))
    ELSE name

(* utils.py:49: sanitized.strip('. ') *)
StripEnds(name) == StripRight(StripLeft(name))

(* name[:n] *)
RECURSIVE Prefix(_, _)
Prefix(name, n) ==
    IF n = 0 \/ name = <<>> THEN <<>>
    ELSE IF Head(name).count <= n
    THEN <<Head(name)>> \o Prefix(Tail(name), n - Head(name).count)
    ELSE <<[char |-> Head(name).char, count |-> n]>>

(* utils.py:51-52: the cut to the length limit *)
Truncate(name) == IF NameLen(name) > FilenameLimit THEN Prefix(name, FilenameLimit) ELSE name

(* utils.py:43-53 *)
SanitizeFilename(name) == Truncate(StripEnds(Substitute(name)))

InitSanitize ==
    /\ time_window = DefaultTimeWindow
    /\ transcript_segments = <<>>
    /\ frames = <<>>
    /\ aligned = <<>>
    /\ searches = 0
    /\ query_timestamp = 0
    /\ nearest_result = None
    /\ pc = "constructed"
    /\ RestIdle
    /\ SignalIdle
    /\ SynthIdle
    /\ filename \in Filenames
    /\ sanitized = <<>>

SanitizeCall ==
    /\ pc = "constructed"
    /\ sanitized' = SanitizeFilename(filename)
    /\ pc' = "sanitized"
    /\ UNCHANGED <<time_window, transcript_segments, frames, aligned, searches, query_timestamp, nearest_result>>
    /\ UNCHANGED <<restVars, filename, signalVars, synthVars>>

SpecSanitize == InitSanitize /\ [][SanitizeCall]_vars

----------------------------------------------------------------------------
(* audio.py: the SIGINT handler installed at import, and the transcription *)
(* loop that polls _shutdown_requested.  A handler is named by its kind:   *)
(* Python's default_int_handler, SIG_DFL, SIG_IGN, or None for a handler   *)
(* that was not installed from Python.                                     *)

MaxTranscribed == 5

Handlers == {"default_int_handler", "SIG_DFL", "SIG_IGN", "None"}

(* bool(handler): SIG_DFL is the integer 0 *)
HandlerTruthy(handler) == handler \in {"default_int_handler", "SIG_IGN"}

(* what signal.signal(SIGINT, handler) accepts *)
HandlerInstallable(handler) == handler # "None"

(* what calling the handler does to the process *)
Invoke(handler) == IF handler = "default_int_handler" THEN "KeyboardInterrupt" ELSE "TypeError"

(* a handler that quits on every Ctrl+C *)
ForceQuitAlways == TRUE

(* audio.py:31: the test that tells the second Ctrl+C from the first       *)
ForceQuitRequested == shutdown_requested

(* audio.py:23-25,45: the module imported, the handler registered          *)
InitSignal ==
    /\ time_window = DefaultTimeWindow
    /\ transcript_segments = <<>>
    /\ frames = <<>>
    /\ aligned = <<>>
    /\ searches = 0
    /\ query_timestamp = 0
    /\ nearest_result = None
    /\ pc = "transcribing"
    /\ RestIdle
    /\ UtilIdle
    /\ SynthIdle
    /\ shutdown_requested = FALSE
    /\ original_handler \in Handlers
    /\ sigint_handler = "_signal_handler"
    /\ process = "running"
    /\ sigints = 0
    /\ segment_count = 0

(* audio.py:27-42: a SIGINT delivered, _signal_handler run                 *)
SignalHandler ==
    /\ process = "running"
    /\ sigint_handler = "_signal_handler"
    /\ sigints' = sigints + 1
    /\ IF ForceQuitRequested
       THEN /\ IF HandlerInstallable(original_handler)
               THEN /\ sigint_handler' = original_handler
                    /\ process' = IF HandlerTruthy(original_handler)
                                  THEN Invoke(original_handler)
                                  ELSE "SystemExit(1)"
               ELSE /\ process' = "TypeError"
                    /\ UNCHANGED sigint_handler
            /\ UNCHANGED shutdown_requested
       ELSE /\ shutdown_requested' = TRUE
            /\ UNCHANGED <<sigint_handler, process>>
    /\ UNCHANGED <<original_handler, segment_count>>
    /\ UNCHANGED <<alignVars, restVars, utilVars, synthVars>>

(* audio.py:332-340: one turn of the transcription loop                    *)
TranscribeSegment ==
    /\ process = "running"
    /\ pc = "transcribing"
    /\ IF shutdown_requested
       THEN pc' = "interrupted" /\ UNCHANGED segment_count
       ELSE IF segment_count < MaxTranscribed
       THEN segment_count' = segment_count + 1 /\ UNCHANGED pc
       ELSE pc' = "transcribed" /\ UNCHANGED segment_count
    /\ UNCHANGED <<shutdown_requested, original_handler, sigint_handler, process, sigints>>
    /\ UNCHANGED <<time_window, transcript_segments, frames, aligned, searches, query_timestamp, nearest_result>>
    /\ UNCHANGED <<restVars, utilVars, synthVars>>

NextSignal == SignalHandler \/ TranscribeSegment

SpecSignal == InitSignal /\ [][NextSignal]_vars

----------------------------------------------------------------------------
(* ContentSynthesizer.__init__, _setup_llm and _make_llm_request.  router  *)
(* is the model list the Router was built with, <<>> while it is None;     *)
(* primary_model is Undefined while the attribute does not exist.          *)

Undefined == [provider |-> "", model |-> ""]

Providers == {"openai", "anthropic", "gemini", "azure"}

(* the model argument: None or a model name *)
ModelArgs == {"None", "gpt-4-vision-preview", "gpt-4o"}

(* synthesis.py:91-94 *)
ModelDefault(provider) ==
    IF provider = "anthropic" THEN "claude-3-sonnet-20240229" ELSE "gpt-4-vision-preview"

(* synthesis.py:87-95: the local primary_model, provider/model *)
PrimaryModel(provider, model) ==
    [provider |-> provider, model |-> IF model # "None" THEN model ELSE ModelDefault(provider)]

(* synthesis.py:109 *)
FallbackModel == [provider |-> "openai", model |-> "gpt-4-vision-preview"]

(* synthesis.py:99-116 *)
ModelList(primary_model) ==
    IF primary_model # FallbackModel THEN <<primary_model, FallbackModel>> ELSE <<primary_model>>

(* the attribute left unset when the router cannot be built *)
PrimaryLeftUnset(primary_model) == Undefined

(* synthesis.py:129 *)
PrimaryAfterRouterFailure(primary_model) == primary_model

(* synthesis.py:22-41: the arguments stored, router None *)
InitSetup ==
    /\ time_window = DefaultTimeWindow
    /\ transcript_segments = <<>>
    /\ frames = <<>>
    /\ aligned = <<>>
    /\ searches = 0
    /\ query_timestamp = 0
    /\ nearest_result = None
    /\ pc = "init"
    /\ RestIdle
    /\ UtilIdle /\ SignalIdle /\ GatherIdle
    /\ \E provider \in Providers, model \in ModelArgs, no_fallback \in BOOLEAN :
          synthesizer = [provider |-> provider, model |-> model, no_fallback |-> no_fallback,
                         router |-> <<>>, primary_model |-> [provider |-> "", model |-> ""]]
    /\ router_fails \in BOOLEAN
    /\ response = "none"

(* synthesis.py:78-133 *)
SetupLLM ==
    /\ pc = "init"
    /\ LET primary_model == PrimaryModel(synthesizer.provider, synthesizer.model)
       IN synthesizer' =
             IF ~synthesizer.no_fallback
             THEN IF ~router_fails
                  THEN [synthesizer EXCEPT !.router = ModelList(primary_model)]
                  ELSE [synthesizer EXCEPT !.router = <<>>,
                                           !.primary_model = PrimaryAfterRouterFailure(primary_model)]
             ELSE [synthesizer EXCEPT !.primary_model = primary_model]
    /\ pc' = "constructed"
    /\ UNCHANGED <<router_fails, response, max_concurrent, semaphore, tasks, results>>
    /\ UNCHANGED <<time_window, transcript_segments, frames, aligned, searches, query_timestamp, nearest_result>>
    /\ UNCHANGED <<restVars, utilVars, signalVars>>

(* synthesis.py:202-224: the request goes to the router, or to the model   *)
(* named by self.primary_model                                             *)
MakeLLMRequest ==
    /\ pc \in {"constructed", "requested"}
    /\ response' = IF synthesizer.router # <<>> THEN "router"
                   ELSE IF synthesizer.primary_model = Undefined THEN "AttributeError"
                   ELSE "completion"
    /\ pc' = "requested"
    /\ UNCHANGED <<synthesizer, router_fails, max_concurrent, semaphore, tasks, results>>
    /\ UNCHANGED <<time_window, transcript_segments, frames, aligned, searches, query_timestamp, nearest_result>>
    /\ UNCHANGED <<restVars, utilVars, signalVars>>

NextSetup == SetupLLM \/ MakeLLMRequest

SpecSetup == InitSetup /\ [][NextSetup]_vars

----------------------------------------------------------------------------
(* ContentSynthesizer.synthesize_all.  Each input record gets a task; a    *)
(* task waits for the semaphore, holds a permit while its LLM request is   *)
(* in flight, and is done when synthesize_frame has returned.  The loop    *)
(* over as_completed takes the tasks in the order they finish.             *)

MaxSynthFrames == 3
MaxConcurrent == 2

(* frame timestamps in input order: rising, falling, all equal *)
Rising(n) == [i \in 1..n |-> i - 1]

Falling(n) == [i \in 1..n |-> n - i]

Level(n) == [i \in 1..n |-> 1]

SynthInputs ==
    {[i \in 1..Len(ts) |-> AlignedContent(MkFrames(ts)[i], <<>>, DefaultTimeWindow)] :
        ts \in UNION {{Rising(n), Falling(n), Level(n)} : n \in 0..MaxSynthFrames}}

(* how the request of a frame ends once it was sent: a parsed response, an *)
(* exception from the request or from reading the response, or a body      *)
(* that is not JSON                                                        *)
RequestFates == {"ok", "request_error", "unparseable"}

(* synthesis.py:232-238: what _parse_llm_response hands back for a body    *)
(* that json.loads rejects                                                 *)
ParseErrorSummary == "[Unable to parse response]"

(* synthesis.py:181-186 and 272-275 *)
ErrorSummary == "[Error during synthesis]"

(* a synthesize_frame that lets the exception of a failed frame escape *)
SynthesizeFrameRaising(content, fate) ==
    [raised |-> fate \in {"encode_error", "request_error"},
     frame_timestamp |-> content.frame.timestamp,
     summary |-> IF fate = "ok" THEN "summary"
                 ELSE IF fate = "unparseable" THEN ParseErrorSummary
                 ELSE ErrorSummary]

(* synthesis.py:135-186: what synthesize_frame returns for a frame whose   *)
(* processing ends as fate says; no exception leaves it                    *)
SynthesizeFrame(content, fate) ==
    [raised |-> FALSE,
     frame_timestamp |-> content.frame.timestamp,
     summary |-> IF fate = "ok" THEN "summary"
                 ELSE IF fate = "unparseable" THEN ParseErrorSummary
                 ELSE ErrorSummary]

(* synthesis.py:261-275: what the loop appends for a finished task *)
Collected(outcome) ==
    IF outcome.raised
    THEN [frame_timestamp |-> 0, summary |-> ErrorSummary]
    ELSE [frame_timestamp |-> outcome.frame_timestamp, summary |-> outcome.summary]

(* list.sort(key=...): stable, by insertion from the left *)
RECURSIVE InsertByTimestamp(_, _)
InsertByTimestamp(sorted, r) ==
    IF sorted = <<>> THEN <<r>>
    ELSE IF sorted[Len(sorted)].frame_timestamp <= r.frame_timestamp THEN Append(sorted, r)
    ELSE Append(InsertByTimestamp(SubSeq(sorted, 1, Len(sorted) - 1), r), sorted[Len(sorted)])

RECURSIVE SortPrefix(_, _)
SortPrefix(rs, n) ==
    IF n = 0 THEN <<>> ELSE InsertByTimestamp(SortPrefix(rs, n - 1), rs[n])

(* the results left in the order the tasks finished *)
CompletionOrder(rs) == rs

(* synthesis.py:278 *)
SortByTimestamp(rs) == SortPrefix(rs, Len(rs))

(* a task that takes the semaphore whether or not a permit is left *)
AlwaysFree(permits) == TRUE

(* asyncio.Semaphore.acquire: a permit is taken when one is left *)
PermitFree(permits) == permits > 0

(* a synthesizer whose router was built, and the arguments of the call *)
InitGather ==
    /\ time_window = DefaultTimeWindow
    /\ transcript_segments = <<>>
    /\ frames = <<>>
    /\ aligned \in SynthInputs
    /\ searches = 0
    /\ query_timestamp = 0
    /\ nearest_result = None
    /\ pc = "constructed"
    /\ RestIdle
    /\ UtilIdle /\ SignalIdle
    /\ synthesizer = [provider |-> "openai", model |-> "None", no_fallback |-> FALSE,
                      router |-> ModelList(PrimaryModel("openai", "None")),
                      primary_model |-> Undefined]
    /\ router_fails = FALSE
    /\ response = "none"
    /\ max_concurrent \in -1..MaxConcurrent
    /\ semaphore = 0
    /\ tasks = <<>>
    /\ results = <<>>

(* synthesis.py:240-258: the semaphore (ValueError for a negative value),  *)
(* one task per record, the empty list of results                          *)
SynthesizeAll ==
    /\ pc = "constructed"
    /\ IF max_concurrent < 0
       THEN pc' = "ValueError" /\ UNCHANGED <<semaphore, tasks>>
       ELSE /\ pc' = "gathering"
            /\ semaphore' = max_concurrent
            /\ tasks' = [i \in 1..Len(aligned) |-> [state |-> "pending", fate |-> "none"]]
    /\ results' = <<>>
    /\ UNCHANGED <<synthesizer, router_fails, response, max_concurrent>>
    /\ UNCHANGED <<time_window, transcript_segments, frames, aligned, searches, query_timestamp, nearest_result>>
    /\ UNCHANGED <<restVars, utilVars, signalVars>>

(* synthesis.py:249-251,139-166: task i enters the semaphore and runs to   *)
(* its first await; when the image cannot be encoded it finishes at once   *)
(* and gives the permit back                                               *)
TaskAcquire(i) ==
    /\ pc = "gathering"
    /\ i \in DOMAIN tasks
    /\ tasks[i].state = "pending"
    /\ PermitFree(semaphore)
    /\ \/ /\ tasks' = [tasks EXCEPT ![i] = [state |-> "running", fate |-> "none"]]
          /\ semaphore' = semaphore - 1
          /\ UNCHANGED results
       \/ /\ tasks' = [tasks EXCEPT ![i] = [state |-> "done", fate |-> "encode_error"]]
          /\ results' = Append(results, Collected(SynthesizeFrame(aligned[i], "encode_error")))
          /\ UNCHANGED semaphore
    /\ UNCHANGED <<synthesizer, router_fails, response, max_concurrent>>
    /\ UNCHANGED <<alignVars, restVars, utilVars, signalVars>>

(* synthesis.py:166-186,250,260-275: the request of task i ends, the       *)
(* permit is released, the loop appends the result                         *)
TaskComplete(i) ==
    /\ pc = "gathering"
    /\ i \in DOMAIN tasks
    /\ tasks[i].state = "running"
    /\ \E fate \in RequestFates :
          /\ tasks' = [tasks EXCEPT ![i] = [state |-> "done", fate |-> fate]]
          /\ results' = Append(results, Collected(SynthesizeFrame(aligned[i], fate)))
    /\ semaphore' = semaphore + 1
    /\ UNCHANGED <<synthesizer, router_fails, response, max_concurrent>>
    /\ UNCHANGED <<alignVars, restVars, utilVars, signalVars>>

(* synthesis.py:277-281: every task awaited, the sort, the return          *)
SynthesizeAllReturn ==
    /\ pc = "gathering"
    /\ \A i \in 1..Len(tasks) : tasks[i].state = "done"
    /\ results' = SortByTimestamp(results)
    /\ pc' = "returned"
    /\ UNCHANGED <<synthesizer, router_fails, response, max_concurrent, semaphore, tasks>>
    /\ UNCHANGED <<time_window, transcript_segments, frames, aligned, searches, query_timestamp, nearest_result>>
    /\ UNCHANGED <<restVars, utilVars, signalVars>>

NextGather ==
    \/ SynthesizeAll
    \/ \E i \in 1..MaxSynthFrames : TaskAcquire(i) \/ TaskComplete(i)
    \/ SynthesizeAllReturn

SpecGather == InitGather /\ [][NextGather]_vars

(* the event loop runs whatever is ready, and every request sent ends *)
SpecGatherFair == SpecGather /\ WF_vars(NextGather)

----------------------------------------------------------------------------
(* Properties of align and _find_nearest_segment.  The overlap predicate   *)
(* and the distance are restated here as the documentation gives them, so  *)
(* that the properties compare the code's result with the documented one.  *)

Returned == pc = "returned"

(* the segments recorded for frame i *)
SegmentsOf(i) == aligned[i].transcript_segments

(* the elements of a sequence *)
Range(seq) == {seq[k] : k \in 1..Len(seq)}

(* segment.end >= t - time_window AND segment.start <= t + time_window *)
InWindow(seg, t, w) == seg.end >= t - w /\ seg.start <= t + w

(* 0 if start <= t <= end, start - t if t < start, t - end if t > end *)
DocDistance(seg, t) ==
    IF seg.start <= t /\ t <= seg.end THEN 0
    ELSE IF t < seg.start THEN seg.start - t
    ELSE t - seg.end

(* the input segments in the window of frame i *)
WindowSet(i) == {j \in 1..Len(transcript_segments) :
                    InWindow(transcript_segments[j], frames[i].timestamp, time_window)}

(* C1: align returns exactly one record per input frame, for every segment *)
(* list and every frame list, the empty ones included.                     *)
C1_LengthInvariant == Returned => Len(aligned) = Len(frames)

C1_Witness ==
    /\ Returned
    /\ transcript_segments # <<>>
    /\ Len(frames) >= 2
    /\ searches > 0
    /\ Len(aligned) = Len(frames)

(* C2: whenever the segment list is non-empty, every record returned by    *)
(* align has a non-empty transcript_segments sequence: the nearest-        *)
(* neighbour fallback supplies a segment when the window holds none.       *)
C2_NeverEmptyWithSegments ==
    (Returned /\ transcript_segments # <<>>) =>
        \A i \in 1..Len(aligned) : SegmentsOf(i) # <<>>

C2_Witness ==
    /\ Returned
    /\ transcript_segments # <<>>
    /\ \E i \in 1..Len(aligned) : WindowSet(i) = {} /\ SegmentsOf(i) # <<>>

(* C3: for every frame with at least one segment in its window, the record *)
(* holds exactly the segments satisfying the overlap predicate, no more    *)
(* and no fewer; a segment touching the window at one instant is included. *)
C3_ExactlyTheOverlapping ==
    (Returned /\ transcript_segments # <<>>) =>
        \A i \in 1..Len(aligned) :
            WindowSet(i) # {} =>
                /\ Range(SegmentsOf(i)) = {transcript_segments[j] : j \in WindowSet(i)}
                /\ Len(SegmentsOf(i)) = Cardinality(WindowSet(i))

C3_Witness ==
    /\ Returned
    /\ \E i \in 1..Len(aligned) : \E j \in 1..Len(transcript_segments) :
          /\ transcript_segments[j].end = frames[i].timestamp - time_window
          /\ transcript_segments[j].start < transcript_segments[j].end
          /\ transcript_segments[j] \in Range(SegmentsOf(i))
          /\ Len(SegmentsOf(i)) < Len(transcript_segments)

(* C4: for every frame with no segment in its window and a non-empty       *)
(* segment list, the record holds exactly one segment, and that segment    *)
(* has the minimum distance to the frame's timestamp.                      *)
C4_FallbackIsNearest ==
    (Returned /\ transcript_segments # <<>>) =>
        \A i \in 1..Len(aligned) :
            WindowSet(i) = {} =>
                /\ Len(SegmentsOf(i)) = 1
                /\ SegmentsOf(i)[1] \in Range(transcript_segments)
                /\ \A j \in 1..Len(transcript_segments) :
                      DocDistance(SegmentsOf(i)[1], frames[i].timestamp)
                          <= DocDistance(transcript_segments[j], frames[i].timestamp)

C4_Witness ==
    /\ Returned
    /\ Len(transcript_segments) = 2
    /\ \E i \in 1..Len(aligned) :
          /\ WindowSet(i) = {}
          /\ DocDistance(transcript_segments[2], frames[i].timestamp)
                < DocDistance(transcript_segments[1], frames[i].timestamp)
          /\ SegmentsOf(i) = <<transcript_segments[2]>>

(* the first index of a segment at minimum distance from t *)
FirstNearestIndex(segs, t) ==
    CHOOSE j \in 1..Len(segs) :
        /\ \A k \in 1..Len(segs) : DocDistance(segs[j], t) <= DocDistance(segs[k], t)
        /\ \A k \in 1..(j - 1) : DocDistance(segs[k], t) > DocDistance(segs[j], t)

(* C5: _find_nearest_segment breaks ties by first occurrence: among the    *)
(* segments at minimum distance from the timestamp (several at distance 0  *)
(* included) it returns the one with the smallest index.                   *)
C5_FirstOccurrenceWinsTies ==
    (pc = "found" /\ transcript_segments # <<>>) =>
        nearest_result = transcript_segments[FirstNearestIndex(transcript_segments, query_timestamp)]

C5_Witness ==
    /\ pc = "found"
    /\ Len(transcript_segments) >= 2
    /\ transcript_segments[1] # [transcript_segments[2] EXCEPT !.id = 0]
    /\ DocDistance(transcript_segments[1], query_timestamp) = 0
    /\ DocDistance(transcript_segments[2], query_timestamp) = 0
    /\ nearest_result = transcript_segments[1]

(* C6: align preserves frame order: output[i].frame is frames[i] for every *)
(* i, also for non-monotonic or equal timestamps.                          *)
C6_FrameOrderPreserved ==
    Returned =>
        /\ Len(aligned) = Len(frames)
        /\ \A i \in 1..Len(frames) : aligned[i].frame = frames[i]

C6_Witness ==
    /\ Returned
    /\ transcript_segments # <<>>
    /\ Len(frames) >= 2
    /\ frames[1].timestamp > frames[2].timestamp
    /\ aligned[1].frame = frames[1]
    /\ aligned[2].frame = frames[2]

(* C7: align(segments, []) returns the empty list for every segment list,  *)
(* the empty segment list included.                                        *)
C7_NoFramesNoRecords == (Returned /\ frames = <<>>) => aligned = <<>>

C7_Witness ==
    /\ Returned
    /\ frames = <<>>
    /\ transcript_segments = <<>>
    /\ aligned = <<>>

(* C8: align([], frames) with non-empty frames returns one record per      *)
(* frame, in frame order, each with no transcript segments, and makes no   *)
(* nearest-neighbour search.                                               *)
C8_NoSegmentsEmptyRecords ==
    (Returned /\ transcript_segments = <<>> /\ frames # <<>>) =>
        /\ Len(aligned) = Len(frames)
        /\ \A i \in 1..Len(frames) :
              aligned[i].frame = frames[i] /\ aligned[i].transcript_segments = <<>>
        /\ searches = 0

C8_Witness ==
    /\ Returned
    /\ transcript_segments = <<>>
    /\ Len(frames) >= 2
    /\ Len(aligned) = Len(frames)

(* the records of the frames at 5.5 s, and the copies of S in the input *)
ExampleFrameIndices == {i \in 1..Len(frames) : frames[i].timestamp = ExampleFrame.timestamp}
IsExampleSegment(seg) == seg.start = ExampleSegment.start /\ seg.end = ExampleSegment.end

(* C9 as claimed: with S = [2.0, 4.0] in the segment list and a frame at   *)
(* 5.5, time_window = 2.0 puts S in the frame's transcript_segments and    *)
(* time_window = 1.0 keeps S out of them.                                  *)
C9_AsClaimed ==
    Returned =>
        \A i \in ExampleFrameIndices : \A j \in 1..Len(transcript_segments) :
            IsExampleSegment(transcript_segments[j]) =>
                /\ time_window = WideWindow => transcript_segments[j] \in Range(SegmentsOf(i))
                /\ time_window = NarrowWindow => transcript_segments[j] \notin Range(SegmentsOf(i))

(* C9, amended: with time_window = 2.0 S is in the frame's                 *)
(* transcript_segments; with time_window = 1.0 S is outside the window and *)
(* is kept out whenever some segment of the list overlaps the window       *)
(* [4.5, 6.5]; when none does, the frame's only segment is the nearest one *)
(* (which may be S).                                                       *)
C9_OverlapExample ==
    Returned =>
        \A i \in ExampleFrameIndices : \A j \in 1..Len(transcript_segments) :
            IsExampleSegment(transcript_segments[j]) =>
                /\ time_window = WideWindow => transcript_segments[j] \in Range(SegmentsOf(i))
                /\ (time_window = NarrowWindow /\ WindowSet(i) # {}) =>
                      transcript_segments[j] \notin Range(SegmentsOf(i))
                /\ (time_window = NarrowWindow /\ WindowSet(i) = {}) =>
                      SegmentsOf(i) = <<transcript_segments[
                          FirstNearestIndex(transcript_segments, frames[i].timestamp)]>>

C9_Witness ==
    /\ Returned
    /\ time_window = NarrowWindow
    /\ \E i \in ExampleFrameIndices : \E j \in 1..Len(transcript_segments) :
          /\ IsExampleSegment(transcript_segments[j])
          /\ SegmentsOf(i) # <<>>
          /\ transcript_segments[j] \notin Range(SegmentsOf(i))

(* whether the ids of sub are strictly increasing and each element is the  *)
(* input segment at that position                                          *)
IsSubsequence(sub, segs) ==
    /\ \A k \in 1..Len(sub) : \E j \in 1..Len(segs) : sub[k] = segs[j] /\ sub[k].id = j - 1
    /\ \A k \in 1..(Len(sub) - 1) : sub[k].id < sub[k + 1].id

(* C10: every record's transcript_segments is a subsequence of the input   *)
(* segment list: input segments, none repeated, in the input order.        *)
C10_InputOrderKept ==
    Returned => \A i \in 1..Len(aligned) : IsSubsequence(SegmentsOf(i), transcript_segments)

C10_Witness ==
    /\ Returned
    /\ Len(transcript_segments) >= 2
    /\ transcript_segments[1].start > transcript_segments[2].start
    /\ \E i \in 1..Len(aligned) :
          SegmentsOf(i) = <<transcript_segments[1], transcript_segments[2]>>

----------------------------------------------------------------------------
(* Properties of get_alignment_stats                                       *)

StatsDone == pc = "stats"

(* the records with at least one segment *)
CoveredSet == {i \in 1..Len(aligned) : aligned[i].transcript_segments # <<>>}

(* the keys of a non-empty statistics mapping *)
StatsKeys == {"total_frames", "frames_with_transcript", "frames_without_transcript",
              "coverage_ratio", "avg_segments_per_frame", "time_window"}

(* C11: get_alignment_stats([]) returns an empty mapping, with no keys at  *)
(* all, not a mapping whose metrics are zero.                              *)
C11_EmptyInputEmptyMapping ==
    (StatsDone /\ aligned = <<>>) => DOMAIN stats = {}

C11_Witness ==
    /\ StatsDone
    /\ aligned = <<>>
    /\ DOMAIN stats = {}

(* C12 as claimed: coverage_ratio is frames_with_transcript / total_frames *)
(* and, when total_frames == 0, the mapping returned has a coverage_ratio  *)
(* of 0.                                                                   *)
C12_AsClaimed ==
    StatsDone =>
        /\ "coverage_ratio" \in DOMAIN stats
        /\ IF Len(aligned) = 0
           THEN stats.coverage_ratio = Zero
           ELSE stats.coverage_ratio.num * Len(aligned)
                    = Cardinality(CoveredSet) * stats.coverage_ratio.den

(* C12, amended: for a non-empty list coverage_ratio is                    *)
(* frames_with_transcript / total_frames (0.75 for 4 records of which 3    *)
(* have segments); for an empty list the mapping returned is empty and has *)
(* no coverage_ratio at all.                                               *)
C12_CoverageRatio ==
    StatsDone =>
        IF Len(aligned) = 0
        THEN "coverage_ratio" \notin DOMAIN stats
        ELSE /\ stats.coverage_ratio.den > 0
             /\ stats.coverage_ratio.num * Len(aligned)
                    = Cardinality(CoveredSet) * stats.coverage_ratio.den
             /\ (Len(aligned) = 4 /\ Cardinality(CoveredSet) = 3)
                    => stats.coverage_ratio = [num |-> 3, den |-> 4]

C12_Witness ==
    /\ StatsDone
    /\ Len(aligned) = 4
    /\ Cardinality(CoveredSet) = 3
    /\ stats.coverage_ratio = [num |-> 3, den |-> 4]
    /\ stats.frames_with_transcript = 3
    /\ stats.frames_without_transcript = 1

(* C13: for every non-empty list of records, total_frames is the number of *)
(* records, frames_with_transcript the number of records with at least one *)
(* segment, frames_without_transcript their difference; both counts are    *)
(* non-negative and sum to total_frames.                                   *)
C13_FrameCounts ==
    (StatsDone /\ aligned # <<>>) =>
        /\ stats.total_frames = Len(aligned)
        /\ stats.frames_with_transcript = Cardinality(CoveredSet)
        /\ stats.frames_without_transcript = stats.total_frames - stats.frames_with_transcript
        /\ stats.frames_with_transcript >= 0
        /\ stats.frames_without_transcript >= 0
        /\ stats.frames_with_transcript + stats.frames_without_transcript = stats.total_frames

C13_Witness ==
    /\ StatsDone
    /\ Len(aligned) >= 3
    /\ \E i \in 1..Len(aligned) : Len(aligned[i].transcript_segments) >= 2
    /\ stats.frames_with_transcript >= 1
    /\ stats.frames_without_transcript >= 1

(* the sum of len(transcript_segments) over the first n records *)
RECURSIVE SegmentSum(_)
SegmentSum(n) == IF n = 0 THEN 0 ELSE SegmentSum(n - 1) + Len(aligned[n].transcript_segments)

----------------------------------------------------------------------------
(* Properties of align on malformed input, across calls and across frames  *)

Malformed(seg) == seg.end < seg.start

(* what the documentation prescribes for frame i: the segments in the      *)
(* window, or else the first segment at minimum distance                   *)
AsDocumented(i) ==
    IF WindowSet(i) # {}
    THEN /\ Range(SegmentsOf(i)) = {transcript_segments[j] : j \in WindowSet(i)}
         /\ Len(SegmentsOf(i)) = Cardinality(WindowSet(i))
         /\ IsSubsequence(SegmentsOf(i), transcript_segments)
    ELSE SegmentsOf(i) =
            <<transcript_segments[FirstNearestIndex(transcript_segments, frames[i].timestamp)]>>

(* C15: align never ends in an error for malformed timing: with a segment  *)
(* whose end < start in the list, the call returns, with one record per    *)
(* frame, computed from the values as given.                               *)
C15_MalformedTimingAccepted ==
    (\E j \in 1..Len(transcript_segments) : Malformed(transcript_segments[j])) =>
        /\ pc = "constructed" => ENABLED Next
        /\ Returned =>
              /\ Len(aligned) = Len(frames)
              /\ \A i \in 1..Len(aligned) : aligned[i].frame = frames[i] /\ AsDocumented(i)

C15_Witness ==
    /\ Returned
    /\ \E i \in 1..Len(aligned) : \E j \in 1..Len(transcript_segments) :
          /\ Malformed(transcript_segments[j])
          /\ transcript_segments[j].end < frames[i].timestamp
          /\ frames[i].timestamp < transcript_segments[j].start
          /\ WindowSet(i) = {}
          /\ SegmentsOf(i) = <<transcript_segments[j]>>

(* C16: the aligner keeps no state across calls other than its            *)
(* configuration: no call of align or get_alignment_stats changes          *)
(* time_window or the input lists, and align called again on the same      *)
(* inputs returns what the call before returned.                           *)
C16_StatelessAcrossCalls ==
    [][/\ time_window' = time_window
       /\ transcript_segments' = transcript_segments
       /\ frames' = frames
       /\ (pc # "constructed" /\ pc' = "returned") => aligned' = aligned]_vars

C16_Witness ==
    /\ pc = "returned"
    /\ calls >= 3
    /\ DOMAIN stats # {}
    /\ searches > 0
    /\ Len(aligned) >= 2

(* a sequence in reverse order *)
Reverse(seq) == [k \in 1..Len(seq) |-> seq[Len(seq) + 1 - k]]

(* C17: each frame's alignment is independent of every other frame: for a  *)
(* non-empty segment list, record i of align(segments, frames) has the     *)
(* transcript_segments of align(segments, [frames[i]])[0], and aligning    *)
(* the frames in another order (here reversed) returns the same records in *)
(* that order.                                                             *)
C17_FramesIndependent ==
    (Returned /\ transcript_segments # <<>>) =>
        /\ \A i \in 1..Len(frames) :
              /\ Len(AlignResult(transcript_segments, <<frames[i]>>, time_window)) = 1
              /\ SegmentsOf(i) =
                    AlignResult(transcript_segments, <<frames[i]>>, time_window)[1].transcript_segments
        /\ AlignResult(transcript_segments, Reverse(frames), time_window) = Reverse(aligned)

C17_Witness ==
    /\ Returned
    /\ Len(transcript_segments) >= 2
    /\ Len(frames) >= 2
    /\ SegmentsOf(1) # <<>>
    /\ SegmentsOf(2) # <<>>
    /\ SegmentsOf(1) # SegmentsOf(2)
    /\ Len(SegmentsOf(1)) = 1
    /\ Len(SegmentsOf(2)) = 1

(* C18: two align calls on the same aligner running concurrently on       *)
(* independent inputs do not interfere: under every interleaving of their  *)
(* steps, each call returns what it returns when run alone.                *)
C18_ConcurrentCallsIndependent ==
    \A t \in DOMAIN threads :
        threads[t].pc = "done" =>
            threads[t].aligned = AlignResult(threads[t].segments, threads[t].frames, time_window)

C18_Witness ==
    /\ DOMAIN threads = Callers
    /\ threads[1].pc = "done"
    /\ threads[2].pc = "choose"
    /\ threads[2].i = 1
    /\ Len(threads[1].frames) >= 2
    /\ threads[1].segments # <<>>
    /\ threads[2].segments # <<>>
    /\ threads[1].aligned[2].transcript_segments # threads[2].relevant_segments
    /\ threads[1].aligned = AlignResult(threads[1].segments, threads[1].frames, time_window)

(* the text of stored segment i without the whitespace at its two ends:    *)
(* what lies between its first and its last non-whitespace character       *)
Inked(text) == {k \in 1..Len(text) : text[k] \notin Whitespace}

Least(S) == CHOOSE k \in S : \A m \in S : k <= m

Greatest(S) == CHOOSE k \in S : \A m \in S : k >= m

Trimmed(text) ==
    IF Inked(text) = {} THEN <<>>
    ELSE SubSeq(text, Least(Inked(text)), Greatest(Inked(text)))

RECURSIVE LenSum(_, _)
LenSum(parts, n) == IF n = 0 THEN 0 ELSE LenSum(parts, n - 1) + Len(parts[n])

(* where part i starts in the joined text: after the parts before it and   *)
(* one space after each of them                                            *)
Offset(parts, i) == LenSum(parts, i - 1) + (i - 1)

TextDone == pc = "text"

(* C19: get_transcript_text returns the texts of transcript_segments, each *)
(* without its leading and trailing whitespace, joined by single spaces in *)
(* the stored order; for no segments it returns the empty string.          *)
C19_TranscriptText ==
    TextDone =>
        LET segs == aligned[1].transcript_segments
            parts == [i \in 1..Len(segs) |-> Trimmed(segs[i].text)]
            n == Len(parts)
        IN IF n = 0 THEN transcript_text = <<>>
           ELSE /\ Len(transcript_text) = LenSum(parts, n) + (n - 1)
                /\ \A i \in 1..n :
                      /\ SubSeq(transcript_text, Offset(parts, i) + 1,
                                Offset(parts, i) + Len(parts[i])) = parts[i]
                      /\ i > 1 => transcript_text[Offset(parts, i)] = " "

C19_Witness ==
    /\ TextDone
    /\ Len(aligned[1].transcript_segments) = 2
    /\ aligned[1].transcript_segments[1].text = <<" ", "a", "\n">>
    /\ aligned[1].transcript_segments[2].text = <<"a", " ", "a">>
    /\ transcript_text = <<"a", " ", "a", " ", "a">>

C19_WitnessEmpty ==
    /\ TextDone
    /\ aligned[1].transcript_segments = <<>>
    /\ transcript_text = <<>>

Selected == pc = "selected"

(* a backend of this kind works on this platform: MLX on Apple Silicon     *)
(* with mlx_whisper installed, faster-whisper everywhere                   *)
WorksOn(kind, env) ==
    \/ kind = "faster-whisper"
    \/ kind = "mlx" /\ env.system = "Darwin" /\ env.machine = "arm64" /\ env.mlx_whisper

(* C20: get_best_backend always returns a backend whose is_available() is  *)
(* true and never raises "No audio transcription backend available",       *)
(* whatever preferred is (None, a known name unavailable here, an unknown  *)
(* name) and whether or not MLX is available.                              *)
C20_BestBackendAvailable ==
    Selected =>
        /\ backend.kind # "RuntimeError"
        /\ backend.kind \in {"mlx", "faster-whisper"}
        /\ WorksOn(backend.kind, platform_env)
        /\ backend.model_name = model_name

C20_Witness ==
    /\ Selected
    /\ preferred = "mlx"
    /\ platform_env.system = "Darwin"
    /\ platform_env.machine = "arm64"
    /\ ~platform_env.mlx_whisper
    /\ backend.kind = "faster-whisper"

C20_WitnessUnknownName ==
    /\ Selected
    /\ preferred = "nonexistent-backend"
    /\ WorksOn("mlx", platform_env)
    /\ backend.kind = "mlx"

(* C21: get_best_backend selects by priority: a preferred known backend    *)
(* that is available is returned as that kind; otherwise (no preference,   *)
(* unknown name, preferred backend unavailable) MLX is returned when it is *)
(* available and faster-whisper when it is not.                            *)
C21_SelectionByPriority ==
    Selected =>
        IF preferred \in {"mlx", "faster-whisper"} /\ WorksOn(preferred, platform_env)
        THEN backend.kind = preferred
        ELSE IF WorksOn("mlx", platform_env)
        THEN backend.kind = "mlx"
        ELSE backend.kind = "faster-whisper"

C21_Witness ==
    /\ Selected
    /\ preferred = "faster-whisper"
    /\ WorksOn("mlx", platform_env)
    /\ backend.kind = "faster-whisper"

C21_WitnessAuto ==
    /\ Selected
    /\ preferred \in {"None", "", "auto"}
    /\ WorksOn("mlx", platform_env)
    /\ backend.kind = "mlx"

(* C27: for every non-empty segment list and non-empty frame list,         *)
(* get_alignment_stats(align(segments, frames)) reports                    *)
(* frames_without_transcript = 0 and coverage_ratio = 1, records that come *)
(* from the fallback counting as covered; after align, coverage below 1    *)
(* occurs only for an empty segment list.                                  *)
C27_AlignedIsFullyCovered ==
    (StatsDone /\ frames # <<>>) =>
        /\ transcript_segments # <<>> =>
              /\ stats.frames_without_transcript = 0
              /\ stats.coverage_ratio.num = stats.coverage_ratio.den
        /\ stats.coverage_ratio.num < stats.coverage_ratio.den => transcript_segments = <<>>

C27_Witness ==
    /\ StatsDone
    /\ transcript_segments # <<>>
    /\ Len(frames) >= 2
    /\ \E i \in 1..Len(frames) : WindowSet(i) = {}
    /\ \E i \in 1..Len(frames) : WindowSet(i) # {}
    /\ stats.frames_without_transcript = 0
    /\ stats.coverage_ratio = [num |-> 1, den |-> 1]

C27_WitnessUncovered ==
    /\ StatsDone
    /\ transcript_segments = <<>>
    /\ frames # <<>>
    /\ stats.coverage_ratio = [num |-> 0, den |-> 1]

WellFormed(segments) == \A j \in 1..Len(segments) : segments[j].start <= segments[j].end

(* C28: widening the window never removes context: when every segment has  *)
(* end >= start, every segment recorded for a frame under time_window = w1 *)
(* (from the window or from the fallback) is also recorded for it under    *)
(* every time_window w2 >= w1 >= 0.                                        *)
C28_WideningKeepsContext ==
    (Returned /\ WellFormed(transcript_segments)) =>
        \A w2 \in Windows :
            w2 >= time_window =>
                \A i \in 1..Len(aligned) :
                    Range(SegmentsOf(i))
                        \subseteq Range(AlignResult(transcript_segments, frames, w2)[i].transcript_segments)

C28_Witness ==
    /\ Returned
    /\ WellFormed(transcript_segments)
    /\ Len(transcript_segments) >= 2
    /\ \E i \in 1..Len(aligned) : \E w2 \in Windows :
          /\ w2 > time_window
          /\ WindowSet(i) = {}
          /\ Len(SegmentsOf(i)) = 1
          /\ LET wider == AlignResult(transcript_segments, frames, w2)[i].transcript_segments
             IN /\ Len(wider) >= 2
                /\ SegmentsOf(i)[1] \in Range(wider)

Sanitized == pc = "sanitized"

(* the characters a sanitized name must not contain *)
Unwanted == {"<", ">", ":", "\"", "/", "\\", "|", "?", "*"}

(* C26 as stated: for every input, the result of sanitize_filename has no  *)
(* leading or trailing period or space, contains none of < > : " / \ | ?   *)
(* *, and is at most 100 characters long.                                  *)
C26_AsClaimed ==
    Sanitized =>
        /\ sanitized # <<>> =>
              /\ sanitized[1].char \notin {".", " "}
              /\ sanitized[Len(sanitized)].char \notin {".", " "}
        /\ \A k \in 1..Len(sanitized) : sanitized[k].char \notin Unwanted
        /\ NameLen(sanitized) <= 100

(* C26, what does hold: the result has no leading period or space, none of *)
(* the characters < > : " / \ | ? *, and at most 100 characters; it has no *)
(* trailing period or space when the stripped name was within the limit.   *)
C26_SanitizedName ==
    Sanitized =>
        /\ sanitized # <<>> => sanitized[1].char \notin {".", " "}
        /\ \A k \in 1..Len(sanitized) : sanitized[k].char \notin Unwanted
        /\ NameLen(sanitized) <= 100
        /\ (sanitized # <<>> /\ sanitized[Len(sanitized)].char \in {".", " "})
              => NameLen(filename) > 100

C26_Witness ==
    /\ Sanitized
    /\ filename = <<[char |-> "a", count |-> 99], [char |-> " ", count |-> 1], [char |-> "a", count |-> 1]>>
    /\ sanitized = <<[char |-> "a", count |-> 99], [char |-> " ", count |-> 1]>>

(* C25: the SIGINT handler is two-stage: the first SIGINT only sets        *)
(* _shutdown_requested and the process continues; a force quit (the        *)
(* original handler restored and invoked, or exit with status 1) happens   *)
(* only on a SIGINT delivered while _shutdown_requested is already true;   *)
(* once set, _shutdown_requested is never reset.                           *)
C25_TwoStageHandler ==
    [][/\ (sigints' = sigints + 1 /\ ~shutdown_requested) =>
              /\ shutdown_requested'
              /\ process' = "running"
              /\ sigint_handler' = sigint_handler
              /\ pc' = pc /\ segment_count' = segment_count
       /\ (process' # process \/ sigint_handler' # sigint_handler) =>
              /\ shutdown_requested
              /\ sigints' = sigints + 1
       /\ shutdown_requested => shutdown_requested'
       /\ original_handler' = original_handler]_vars

C25_Witness ==
    /\ sigints = 2
    /\ shutdown_requested
    /\ original_handler = "default_int_handler"
    /\ sigint_handler = "default_int_handler"
    /\ process = "KeyboardInterrupt"
    /\ pc = "transcribing"
    /\ segment_count > 0

C25_WitnessExit ==
    /\ sigints = 2
    /\ original_handler = "SIG_DFL"
    /\ sigint_handler = "SIG_DFL"
    /\ process = "SystemExit(1)"

SetUp == pc \in {"constructed", "requested"}

(* C29: after construction, in every branch of _setup_llm (router built,   *)
(* router construction failed, fallback disabled) either router is set or  *)
(* primary_model is set, so _make_llm_request never reads an undefined     *)
(* primary_model.                                                          *)
C29_RouterOrPrimaryModel ==
    SetUp =>
        /\ synthesizer.router # <<>> \/ synthesizer.primary_model # [provider |-> "", model |-> ""]
        /\ response # "AttributeError"
        /\ (synthesizer.no_fallback \/ router_fails) => synthesizer.router = <<>>

C29_Witness ==
    /\ pc = "requested"
    /\ ~synthesizer.no_fallback
    /\ router_fails
    /\ synthesizer.router = <<>>
    /\ synthesizer.model = "None"
    /\ synthesizer.primary_model = [provider |-> "anthropic", model |-> "claude-3-sonnet-20240229"]
    /\ response = "completion"

C29_WitnessRouter ==
    /\ pc = "requested"
    /\ Len(synthesizer.router) = 2
    /\ synthesizer.primary_model = [provider |-> "", model |-> ""]
    /\ response = "router"

Gathering == pc = "gathering"

GatherReturned == pc = "returned" /\ max_concurrent >= 0

(* the synthesize_frame calls in progress *)
InProgress == {i \in DOMAIN tasks : tasks[i].state = "running"}

(* C22: during synthesize_all, at no moment are more than max_concurrent   *)
(* synthesize_frame calls in progress, for every number of frames and      *)
(* every interleaving of request completions.                              *)
C22_ConcurrencyBounded ==
    (Gathering \/ GatherReturned) =>
        /\ Cardinality(InProgress) <= max_concurrent
        /\ Cardinality(InProgress) + semaphore = max_concurrent

C22_Witness ==
    /\ Gathering
    /\ max_concurrent = 2
    /\ Len(tasks) = 3
    /\ Cardinality(InProgress) = 2
    /\ tasks[1].state = "done"
    /\ tasks[3].state = "running"

(* what the caller is owed for input record i: the frame's own timestamp,  *)
(* and the error placeholder when its encoding or request raised; a body   *)
(* that is not JSON raises nothing out of _parse_llm_response and leaves   *)
(* the frame its parse-error summary                                       *)
Owed(i) ==
    [frame_timestamp |-> aligned[i].frame.timestamp,
     summary |-> IF tasks[i].fate \in {"encode_error", "request_error"}
                 THEN "[Error during synthesis]"
                 ELSE IF tasks[i].fate = "unparseable" THEN "[Unable to parse response]"
                 ELSE "summary"]

(* C23: synthesize_all returns exactly one SynthesisResult per input        *)
(* AlignedContent, whatever subset of the per-frame requests fail: a frame *)
(* whose processing raises yields a placeholder with that frame's own      *)
(* timestamp and summary '[Error during synthesis]', and the failure of    *)
(* one frame neither drops nor alters the result of another.               *)
C23_OneResultPerFrame ==
    GatherReturned =>
        /\ Len(results) = Len(aligned)
        /\ \A i \in 1..Len(aligned) :
              Cardinality({k \in 1..Len(results) : results[k] = Owed(i)})
                  = Cardinality({j \in 1..Len(aligned) : Owed(j) = Owed(i)})

C23_Witness ==
    /\ GatherReturned
    /\ Len(aligned) = 3
    /\ aligned[1].frame.timestamp = 2
    /\ tasks[1].fate = "request_error"
    /\ tasks[2].fate = "ok"
    /\ tasks[3].fate = "encode_error"
    /\ results[3] = [frame_timestamp |-> 2, summary |-> "[Error during synthesis]"]
    /\ results[2] = [frame_timestamp |-> 1, summary |-> "summary"]

(* C24: the list synthesize_all returns is in non-decreasing               *)
(* frame_timestamp order, whatever the order in which the tasks finished.  *)
C24_ResultsSorted ==
    GatherReturned =>
        \A k \in 1..(Len(results) - 1) :
            results[k].frame_timestamp <= results[k + 1].frame_timestamp

C24_Witness ==
    /\ GatherReturned
    /\ Len(aligned) = 3
    /\ aligned[1].frame.timestamp > aligned[2].frame.timestamp
    /\ aligned[2].frame.timestamp > aligned[3].frame.timestamp
    /\ results[1].frame_timestamp = 0
    /\ results[3].frame_timestamp = 2
    /\ results[1].summary = "summary"
    /\ results[3].summary = "[Unable to parse response]"

(* C30 as stated: synthesize_all eventually returns for every              *)
(* max_concurrent it accepts, every request ending at some time: every     *)
(* task gets the semaphore and every permit taken is given back.           *)
C30_AsClaimed == Gathering ~> (pc = "returned")

(* C30, what does hold: with at least one permit the call returns          *)
C30_ReturnsWithPermits == (Gathering /\ max_concurrent > 0) ~> (pc = "returned")

(* the call accepted with no permit: every task waits for the semaphore    *)
C30_Witness ==
    /\ Gathering
    /\ max_concurrent = 0
    /\ semaphore = 0
    /\ Len(tasks) >= 1
    /\ \A i \in 1..Len(tasks) : tasks[i].state = "pending"

====
